---- MODULE Spec2Model ----
(***************************************************************************)
(* The webrender font driver of remacs                                     *)
(* (rust_src/src/webrender_backend/font.rs): match_/list, open, close,     *)
(* encode_char and text_extents, together with the rendering backend's     *)
(* table of font keys and the host's reclamation of font objects.          *)
(***************************************************************************)
EXTENDS Integers, Sequences, FiniteSets, TLC

(***************************************************************************)
(* IEEE-754 binary32 arithmetic, as `open` uses it (f32 division,          *)
(* multiplication, round, and the `as i32` cast).  A finite f32 is the     *)
(* record [s, m, k] standing for s * m / 2^k with s in {1,-1} and          *)
(* 0 <= m < 2^24.  Products of two significands are kept in two 24-bit     *)
(* halves so that no intermediate value leaves the 32-bit integers.        *)
(***************************************************************************)
Pow2(n) == 2 ^ n

RECURSIVE BitLen(_)
BitLen(n) == IF n <= 0 THEN 0 ELSE 1 + BitLen(n \div 2)

Abs(x) == IF x < 0 THEN -x ELSE x

Sign(x) == IF x < 0 THEN -1 ELSE 1

F32Zero == [s |-> 1, m |-> 0, k |-> 0]

\* A significand that rounding carried up to 2^24 is renormalised.
F32Norm(s, m, k) ==
    IF m = 0 THEN [s |-> s, m |-> 0, k |-> 0]
    ELSE IF m = Pow2(24) THEN [s |-> s, m |-> Pow2(23), k |-> k - 1]
    ELSE [s |-> s, m |-> m, k |-> k]

\* Round-to-nearest-even of (q + r / d): q is the kept quotient, r the
\* remainder below the divisor d.
RoundEven(q, r, d) ==
    IF 2 * r > d \/ (2 * r = d /\ q % 2 = 1) THEN q + 1 ELSE q

\* `x as f32` for an integer x (i64 or u32) with |x| < 2^31.
F32FromInt(x) ==
    LET a == Abs(x)
        sh == BitLen(a) - 24
    IN  IF sh <= 0 THEN [s |-> Sign(x), m |-> a, k |-> 0]
        ELSE F32Norm(Sign(x),
                     RoundEven(a \div Pow2(sh), a % Pow2(sh), Pow2(sh)),
                     -sh)

\* Long division: shift quotient bits in until the quotient has 25
\* significant bits (24 kept and one guard bit), q + r/d being exact.
RECURSIVE DivBits(_, _, _, _)
DivBits(q, r, d, n) ==
    IF q >= Pow2(24) THEN <<q, r, n>>
    ELSE IF 2 * r >= d THEN DivBits(2 * q + 1, 2 * r - d, d, n + 1)
    ELSE DivBits(2 * q, 2 * r, d, n + 1)

\* a / b in f32 (b # 0).
F32Div(a, b) ==
    IF a.m = 0 THEN F32Zero
    ELSE LET res == DivBits(a.m \div b.m, a.m % b.m, b.m, 0)
             q   == res[1]
             r   == res[2]
             n   == res[3]
             \* q has exactly 25 bits: drop the guard bit, round to even
             \* with the remainder as the sticky bit.
             kept  == q \div 2
             guard == q % 2
             up    == guard = 1 /\ (r > 0 \/ kept % 2 = 1)
         IN  F32Norm(a.s * b.s, IF up THEN kept + 1 ELSE kept,
                     a.k - b.k + n - 1)

\* a * b in f32.  With B = 2^12, a.m = a1*B + a0 and b.m = b1*B + b0; the
\* exact product is hi * 2^24 + lo.
F32Mul(a, b) ==
    LET B   == Pow2(12)
        a1  == a.m \div B
        a0  == a.m % B
        b1  == b.m \div B
        b0  == b.m % B
        p0  == a0 * b0
        mid == a1 * b0 + a0 * b1 + (p0 \div B)
        hi  == a1 * b1 + (mid \div B)
        lo  == (mid % B) * B + (p0 % B)
        sh  == BitLen(hi)
        d   == Pow2(sh)
    IN  IF hi = 0 THEN F32Norm(a.s * b.s, lo, a.k + b.k)
        ELSE F32Norm(a.s * b.s,
                     RoundEven(hi * Pow2(24 - sh) + (lo \div d), lo % d, d),
                     a.k + b.k - sh)

F32Neg(a) == [a EXCEPT !.s = -a.s]

\* The bound an out-of-range f32 saturates to under `as i32`.
SatI32(s) == IF s = 1 THEN 2147483647 ELSE -2147483647 - 1

\* f32::round: to the nearest integer, halves away from zero; the result
\* is given as an integer, saturated to the i32 range as `as i32` does.
F32RoundI32(a) ==
    IF a.m = 0 THEN 0
    ELSE IF a.k <= 0
         THEN IF BitLen(a.m) - a.k > 31 THEN SatI32(a.s)
              ELSE a.s * a.m * Pow2(-a.k)
    ELSE IF a.k > 24 THEN 0
    ELSE LET d == Pow2(a.k)
             q == a.m \div d
             r == a.m % d
         IN  a.s * (IF 2 * r >= d THEN q + 1 ELSE q)

\* `x as i32` for an f32 x: truncation toward zero, saturating.
F32TruncI32(a) ==
    IF a.m = 0 THEN 0
    ELSE IF a.k <= 0
         THEN IF BitLen(a.m) - a.k > 31 THEN SatI32(a.s)
              ELSE a.s * a.m * Pow2(-a.k)
    ELSE IF a.k >= 24 THEN 0
    ELSE a.s * (a.m \div Pow2(a.k))

(***************************************************************************)
(* Rust's Option and the Lisp values the driver handles.  A string is the  *)
(* sequence of its characters; a family is Qnil, a symbol or a string; a   *)
(* size is Qnil or a fixnum; an `extra` is an association list, here the   *)
(* sequence of its <<key, value>> pairs (Qnil being the empty one).        *)
(***************************************************************************)
None == [kind |-> "none"]

Some(x) == [kind |-> "some", val |-> x]

Qnil == [kind |-> "nil"]

Qwr == [kind |-> "symbol", text |-> <<"w", "r">>]

Sym(text) == [kind |-> "symbol", text |-> text]

Str(text) == [kind |-> "string", text |-> text]

Fixnum(n) == [kind |-> "fixnum", n |-> n]

\* LispObject::as_fixnum
as_fixnum(obj) == IF obj.kind = "fixnum" THEN Some(obj.n) ELSE None

unwrap_or(opt, default) == IF opt = None THEN default ELSE opt.val

PostscriptKey ==
    Str(<<":", "p", "o", "s", "t", "s", "c", "r", "i", "p", "t", "-", "n", "a", "m", "e">>)

\* Fassoc: the first pair of the list whose key equals `key`, or Qnil.
RECURSIVE Fassoc(_, _)
Fassoc(key, alist) ==
    IF alist = <<>> THEN Qnil
    ELSE IF Head(alist)[1] = key
         THEN [kind |-> "cons", car |-> Head(alist)[1], cdr |-> Head(alist)[2]]
    ELSE Fassoc(key, Tail(alist))

Fcdr(list) == IF list = Qnil THEN Qnil ELSE list.cdr

(***************************************************************************)
(* LispFontLike::get_family.  A FamilyName is one of the five generic      *)
(* classes or Title(text).                                                 *)
(***************************************************************************)
Generic(class) == [tag |-> class]

Title(text) == [tag |-> "Title", title |-> text]

\* str::replace("-", "\\-")
RECURSIVE EscapeHyphens(_)
EscapeHyphens(text) ==
    IF text = <<>> THEN <<>>
    ELSE IF Head(text) = "-" THEN <<"\\", "-">> \o EscapeHyphens(Tail(text))
    ELSE <<Head(text)>> \o EscapeHyphens(Tail(text))

\* Faulty variant: every family taken for a literal title.
get_family_AllTitles(font_spec) ==
    IF font_spec.family = Qnil THEN None
    ELSE Some(Title(EscapeHyphens(font_spec.family.text)))

\* Faulty variant: an absent family defaulted to the monospace class.
get_family_Defaulted(font_spec) ==
    IF font_spec.family = Qnil THEN Some(Generic("Monospace"))
    ELSE Some(Title(EscapeHyphens(font_spec.family.text)))

get_family(font_spec) ==
    LET tem == font_spec.family
    IN  IF tem = Qnil THEN None
        ELSE LET string == tem.text
             IN  IF string = <<"S", "e", "r", "i", "f">>
                     THEN Some(Generic("Serif"))
                 ELSE IF string = <<"S", "a", "n", "s", " ", "S", "e", "r", "i", "f">>
                     THEN Some(Generic("SansSerif"))
                 ELSE IF string = <<"M", "o", "n", "o", "s", "p", "a", "c", "e">>
                     THEN Some(Generic("Monospace"))
                 ELSE IF string = <<"C", "u", "r", "s", "i", "v", "e">>
                     THEN Some(Generic("Cursive"))
                 ELSE IF string = <<"F", "a", "n", "t", "a", "s", "y">>
                     THEN Some(Generic("Fantasy"))
                 ELSE Some(Title(EscapeHyphens(string)))

(***************************************************************************)
(* The system font source (font-kit's SystemSource) as the driver sees     *)
(* it: the installed fonts, each with its names, whether it loads, its     *)
(* design metrics (font units), the advance of glyph 33 and its character  *)
(* map.  "hn" is the font of the specification's scenario.  "raw" does not *)
(* load, "anon" has no postscript name, "tiny" has no glyph 33.            *)
(***************************************************************************)
SystemFonts == {"hn", "dm", "raw", "anon", "tiny"}

FontFiles ==
  [h \in SystemFonts |->
    CASE h = "hn" ->
           [family_name |-> <<"H", "-", "N">>, full_name |-> <<"H", "-", "N", " ", "R">>,
            postscript_name |-> Some(<<"H", "N", "R">>), loads |-> TRUE,
            units_per_em |-> 1000, ascent |-> 800, descent |-> -200,
            line_gap |-> 90, advance |-> Some(278),
            cmap |-> [c \in {33, 65} |-> IF c = 33 THEN 4 ELSE 36]]
      [] h = "dm" ->
           [family_name |-> <<"D", "M">>, full_name |-> <<"D", "M", " ", "B">>,
            postscript_name |-> Some(<<"D", "M", "B">>), loads |-> TRUE,
            units_per_em |-> 2048, ascent |-> 1901, descent |-> -483,
            line_gap |-> 0, advance |-> Some(1233),
            cmap |-> [c \in {33, 65, 19968} |-> IF c = 33 THEN 4
                                                  ELSE IF c = 65 THEN 36 ELSE 900]]
      [] h = "raw" ->
           [family_name |-> <<"R">>, full_name |-> <<"R">>,
            postscript_name |-> Some(<<"R">>), loads |-> FALSE,
            units_per_em |-> 1000, ascent |-> 750, descent |-> -250,
            line_gap |-> 0, advance |-> Some(500),
            cmap |-> [c \in {33} |-> 1]]
      [] h = "anon" ->
           [family_name |-> <<"A">>, full_name |-> <<"A">>,
            postscript_name |-> None, loads |-> TRUE,
            units_per_em |-> 1000, ascent |-> 750, descent |-> -250,
            line_gap |-> 0, advance |-> Some(500),
            cmap |-> [c \in {33} |-> 1]]
      [] h = "tiny" ->
           [family_name |-> <<"T">>, full_name |-> <<"T">>,
            postscript_name |-> Some(<<"T">>), loads |-> TRUE,
            units_per_em |-> 1000, ascent |-> 750, descent |-> -250,
            line_gap |-> 0, advance |-> None,
            cmap |-> [c \in {65} |-> 1]]]

FontFile(h) == FontFiles[h]

\* SystemSource::select_by_postscript_name: Some(handle) of the installed
\* font with that postscript name, or None (an Err).
select_by_postscript_name(name) ==
    IF \E h \in SystemFonts : FontFile(h).postscript_name = Some(name)
    THEN Some(CHOOSE h \in SystemFonts : FontFile(h).postscript_name = Some(name))
    ELSE None

\* Handle::load().ok()
load(h) == IF FontFile(h).loads THEN Some(h) ELSE None

\* Faulty variant: glyph 0 (.notdef) for an unmapped character.
glyph_for_char_Notdef(font_backend, character) ==
    IF character \in DOMAIN FontFile(font_backend).cmap
    THEN Some(FontFile(font_backend).cmap[character])
    ELSE Some(0)

\* Font::glyph_for_char of a loaded font.
glyph_for_char(font_backend, character) ==
    IF character \in DOMAIN FontFile(font_backend).cmap
    THEN Some(FontFile(font_backend).cmap[character])
    ELSE None

(***************************************************************************)
(* The state.                                                              *)
(*   fonts        the live font objects (WRFont), by object identity       *)
(*   made         how many objects font_make_object has allocated          *)
(*   wr_keys      the font keys the rendering backend holds (add_font)     *)
(*   nkeys        how many keys the backend has handed out                 *)
(*   output_font  output.font: the frame's configured font or NullFont     *)
(*   closed       the objects `close` was called on                        *)
(*   reclaimed    the objects whose memory the host has reclaimed, each    *)
(*                with the key it held                                     *)
(*   last         the last call: its inputs, its external calls in order,  *)
(*                and what it returned                                     *)
(***************************************************************************)
VARIABLES fonts, made, wr_keys, nkeys, output_font, closed, reclaimed, last

vars == <<fonts, made, wr_keys, nkeys, output_font, closed, reclaimed, last>>

\* The bound of the exploration: how many font objects are made.
MaxObjects == 2

\* The null pointer of output.font, and the numbers open and text_extents
\* write out.
NullFont == 0

DefaultPixelSize == 15

ReferenceGlyph == 33

PlaceholderBearing == 10

(***************************************************************************)
(* match_ and list.                                                        *)
(***************************************************************************)
\* font_make_entity and the four aset calls of match_.
make_entity(f) ==
    [type   |-> Qwr,
     family |-> Sym(FontFile(f).family_name),
     name   |-> Str(FontFile(f).full_name),
     size   |-> Qnil,
     extra  |-> <<<<PostscriptKey, Str(FontFile(f).postscript_name.val)>>>>]

\* One call of match_ on `spec`; `best` is what the system source's
\* select_best_match answers when it is asked (Some(handle) or None).
match_call(spec, best) ==
    LET family == get_family(spec)
        handle == IF family = None THEN None ELSE best
        font   == IF handle = None THEN None ELSE load(handle.val)
        calls  == (IF family = None THEN <<>>
                   ELSE <<[fn |-> "select_best_match", arg |-> family.val]>>)
                  \o (IF handle = None THEN <<>>
                      ELSE <<[fn |-> "load", arg |-> handle.val]>>)
    IN  IF font = None
            THEN [outcome |-> "ok", calls |-> calls, result |-> <<>>]
        ELSE IF FontFile(font.val).postscript_name = None
            THEN [outcome |-> "panic", calls |-> calls, result |-> <<>>]
        ELSE [outcome |-> "ok",
              calls   |-> calls \o <<[fn |-> "font_make_entity", arg |-> font.val]>>,
              result  |-> <<make_entity(font.val)>>]

\* A panic unwinds into the C host and aborts the process: nothing of its
\* state is left but the record of the call that panicked.
Aborted ==
    /\ fonts' = <<>>
    /\ made' = 0
    /\ wr_keys' = {}
    /\ nkeys' = 0
    /\ output_font' = NullFont
    /\ closed' = {}
    /\ reclaimed' = {}

Running == last.outcome # "panic"

FamilyTexts ==
    { <<"S", "e", "r", "i", "f">>,
      <<"S", "a", "n", "s", " ", "S", "e", "r", "i", "f">>,
      <<"S", "a", "n", "s", "S", "e", "r", "i", "f">>,
      <<"M", "o", "n", "o", "s", "p", "a", "c", "e">>,
      <<"C", "u", "r", "s", "i", "v", "e">>,
      <<"F", "a", "n", "t", "a", "s", "y">>,
      <<"s", "e", "r", "i", "f">>,
      <<"H", "-", "N">>,
      <<"D", "M">>,
      <<"-", "a", "-">> }

\* The font specifications the host asks about: the family is absent, a
\* symbol or a string; a size may be given.
FontSpecs ==
    [family : {Qnil} \cup {Sym(t) : t \in FamilyTexts}
                     \cup {Str(<<"D", "M">>), Str(<<"S", "e", "r", "i", "f">>)},
     size   : {Qnil, Fixnum(12)}]

BestMatches == {None} \cup {Some(h) : h \in SystemFonts}

\* What a call of match_ leaves behind; `op` tells which entry point the
\* host called.
MatchStep(op, spec, best) ==
    \E r \in {match_call(spec, best)} :
        /\ last' = [op |-> op, spec |-> spec, outcome |-> r.outcome,
                    calls |-> r.calls, result |-> r.result]
        /\ IF r.outcome = "panic"
           THEN Aborted
           ELSE UNCHANGED <<fonts, made, wr_keys, nkeys, output_font,
                            closed, reclaimed>>

match_ ==
    /\ Running
    /\ \E spec \in FontSpecs, best \in BestMatches : MatchStep("match", spec, best)

\* list hands its arguments to match_.
list ==
    /\ Running
    /\ \E spec \in FontSpecs, best \in BestMatches : MatchStep("list", spec, best)

(***************************************************************************)
(* open.                                                                   *)
(***************************************************************************)
\* Faulty variant: the zero test made on the requested size only.
EffectivePixelSize_RequestedZero(font_entity, pixel_size) ==
    IF as_fixnum(font_entity.size) # None THEN font_entity.size.n
    ELSE IF pixel_size = 0
         THEN IF output_font # NullFont
              THEN fonts[output_font].pixel_size
              ELSE DefaultPixelSize
         ELSE pixel_size

\* The pixel size open works with: the entity's size if it is a fixnum,
\* else the requested one; a zero is replaced by the pixel size of the
\* frame's font, or by 15 when the frame has none.
EffectivePixelSize(font_entity, pixel_size) ==
    LET size == unwrap_or(as_fixnum(font_entity.size), pixel_size)
    IN  IF size = 0
        THEN IF output_font # NullFont
             THEN fonts[output_font].pixel_size
             ELSE DefaultPixelSize
        ELSE size

\* Faulty variant: the test left out, open goes on to read the name.
PostscriptNameMissing_Unchecked(val) == FALSE

\* val.is_nil() on the result of Fassoc
PostscriptNameMissing(val) == val = Qnil

\* scale = pixel_size as f32 / units_per_em as f32
Scale(pixel_size, units_per_em) ==
    F32Div(F32FromInt(pixel_size), F32FromInt(units_per_em))

\* (font_advance.x * scale) as i32
AverageWidth(advance_x, scale) == F32TruncI32(F32Mul(F32FromInt(advance_x), scale))

\* (scale * font_metrics.ascent).round() as i32
Ascent(scale, ascent) == F32RoundI32(F32Mul(scale, F32FromInt(ascent)))

\* (-scale * font_metrics.descent).round() as i32
Descent(scale, descent) == F32RoundI32(F32Mul(F32Neg(scale), F32FromInt(descent)))

\* Faulty variant: the height without the line gap.
Height_NoLineGap(scale, line_gap, ascent, descent) == ascent + descent

\* (scale * font_metrics.line_gap).round() as i32 + ascent + descent
Height(scale, line_gap, ascent, descent) ==
    F32RoundI32(F32Mul(scale, F32FromInt(line_gap))) + ascent + descent

\* The fields open writes into the new object.
OpenedFont(font_entity, pixel_size, font, font_key) ==
    LET font_metrics == FontFile(font)
        scale   == Scale(pixel_size, font_metrics.units_per_em)
        average == AverageWidth(font_metrics.advance.val, scale)
        ascent  == Ascent(scale, font_metrics.ascent)
        descent == Descent(scale, font_metrics.descent)
    IN  [type            |-> Qwr,
         name            |-> font_entity.family.text,
         pixel_size      |-> pixel_size,
         average_width   |-> average,
         ascent          |-> ascent,
         descent         |-> descent,
         space_width     |-> average,
         height          |-> Height(scale, font_metrics.line_gap, ascent, descent),
         baseline_offset |-> 0,
         driver          |-> "FONT_DRIVER",
         font_key        |-> font_key,
         font_backend    |-> font]

\* One call of open: its outcome, its external calls in order, and the
\* object it fills in when it returns one.  The entity's family is a
\* symbol, as match_ makes it, so that taking its name goes through; the
\* `metrics` field of WRFont is never written and is left out.
open_call(font_entity, requested) ==
    LET pixel_size == EffectivePixelSize(font_entity, requested)
        made_obj   == <<[fn |-> "font_make_object", arg |-> pixel_size]>>
        val        == Fassoc(PostscriptKey, font_entity.extra)
    IN  IF PostscriptNameMissing(val)
            THEN [outcome |-> "error",
                  message |-> "postscript-name can not be found!",
                  calls   |-> made_obj]
        ELSE IF Fcdr(val).kind # "string"
            THEN [outcome |-> "panic", message |-> "", calls |-> made_obj]
        ELSE
        LET postscript_name == Fcdr(val).text
            font   == select_by_postscript_name(postscript_name)
            lookup == made_obj
                      \o <<[fn |-> "select_by_postscript_name", arg |-> postscript_name]>>
        IN  IF font = None
                THEN [outcome |-> "panic", message |-> "", calls |-> lookup]
            ELSE
            LET h      == font.val
                keyed  == lookup \o <<[fn |-> "add_font", arg |-> h]>>
                loaded == keyed \o <<[fn |-> "load", arg |-> h]>>
                again  == loaded \o <<[fn |-> "load", arg |-> h],
                                      [fn |-> "metrics", arg |-> h],
                                      [fn |-> "advance", arg |-> ReferenceGlyph]>>
            IN  IF load(h) = None
                    THEN [outcome |-> "panic", message |-> "", calls |-> loaded]
                ELSE IF FontFile(h).advance = None
                    THEN [outcome |-> "panic", message |-> "", calls |-> again]
                ELSE [outcome |-> "ok", message |-> "", calls |-> again,
                      object  |-> OpenedFont(font_entity, pixel_size, h, nkeys + 1)]

\* The entities match_ makes, as the host hands them back to open: as
\* made, with a size set, with the postscript name behind another entry,
\* or without it.
OtherEntry == <<Str(<<":", "l", "a", "n", "g">>), Sym(<<"e", "n">>)>>

SizeAttributes == {Qnil, Fixnum(0), Fixnum(60000)}

OpenEntities ==
    LET made_by_match ==
            {make_entity(h) : h \in {f \in SystemFonts :
                                       /\ FontFile(f).loads
                                       /\ FontFile(f).postscript_name # None}}
    IN  UNION { { [e EXCEPT !.size = sz, !.extra = ex] :
                    sz \in SizeAttributes,
                    ex \in {e.extra, <<OtherEntry>> \o e.extra, <<OtherEntry>>, <<>>} }
                : e \in made_by_match }

RequestedSizes == {0, 20}

\* The action binds the outcome of the call once (r) and then writes it
\* into the state.
open ==
    /\ Running
    /\ made < MaxObjects
    /\ \E font_entity \in OpenEntities, pixel_size \in RequestedSizes :
       \E r \in {open_call(font_entity, pixel_size)} :
          /\ last' = [op |-> "open", entity |-> font_entity,
                      pixel_size |-> pixel_size, outcome |-> r.outcome,
                      message |-> r.message, calls |-> r.calls,
                      result |-> IF r.outcome = "ok" THEN made + 1 ELSE NullFont]
          /\ IF r.outcome = "panic"
             THEN Aborted
             ELSE /\ made' = made + 1
                  /\ IF r.outcome = "ok"
                     THEN /\ fonts' = [o \in DOMAIN fonts \cup {made + 1} |->
                                         IF o = made + 1 THEN r.object ELSE fonts[o]]
                          /\ nkeys' = nkeys + 1
                          /\ wr_keys' = wr_keys \cup {nkeys + 1}
                     ELSE UNCHANGED <<fonts, nkeys, wr_keys>>
                  /\ UNCHANGED <<output_font, closed, reclaimed>>

(***************************************************************************)
(* close, encode_char, text_extents.                                       *)
(***************************************************************************)
\* close has an empty body: it only is recorded as called.
close ==
    \E font \in DOMAIN fonts :
        /\ Running
        /\ font \notin closed
        /\ closed' = closed \cup {font}
        /\ last' = [op |-> "close", font |-> font, outcome |-> "ok", calls |-> <<>>]
        /\ UNCHANGED <<fonts, made, wr_keys, nkeys, output_font, reclaimed>>

\* `c as u32` of an i32, as its high and low 16-bit words.
AsU32(c) == <<(c \div 65536) % 65536, c % 65536>>

\* std::char::from_u32: a scalar value is at most 0x10FFFF and no surrogate.
char_from_u32(w) ==
    IF w[1] > 16 \/ (w[1] = 0 /\ w[2] >= 55296 /\ w[2] <= 57343)
    THEN None
    ELSE Some(w[1] * 65536 + w[2])

\* FONT_INVALID_CODE, 0xFFFFFFFF, as its two 16-bit words.
FONT_INVALID_CODE == <<65535, 65535>>

encode_char_call(font, c) ==
    LET ch    == char_from_u32(AsU32(c))
        glyph == IF ch = None THEN None
                 ELSE glyph_for_char(fonts[font].font_backend, ch.val)
    IN  IF glyph = None THEN FONT_INVALID_CODE ELSE AsU32(glyph.val)

CodePoints == {-1, 33, 65, 66, 19968, 55296, 57343, 1114112}

encode_char ==
    \E font \in DOMAIN fonts, c \in CodePoints :
        /\ Running
        /\ font \notin closed
        /\ last' = [op |-> "encode_char", font |-> font, c |-> c, outcome |-> "ok",
                    calls |-> <<>>, result |-> encode_char_call(font, c)]
        /\ UNCHANGED <<fonts, made, wr_keys, nkeys, output_font, closed, reclaimed>>

\* `x as i16` of an i32.
AsI16(x) == ((x + 32768) % 65536) - 32768

\* Faulty variant: extents that add up the advance of every glyph.
text_extents_call_PerGlyph(font, code, nglyphs) ==
    [lbearing |-> PlaceholderBearing,
     rbearing |-> PlaceholderBearing,
     width    |-> AsI16(nglyphs * fonts[font].average_width),
     ascent   |-> AsI16(fonts[font].ascent),
     descent  |-> AsI16(fonts[font].descent)]

text_extents_call(font, code, nglyphs) ==
    [lbearing |-> PlaceholderBearing,
     rbearing |-> PlaceholderBearing,
     width    |-> AsI16(fonts[font].average_width),
     ascent   |-> AsI16(fonts[font].ascent),
     descent  |-> AsI16(fonts[font].descent)]

\* The glyph runs the host measures (glyph codes of the installed fonts).
GlyphRuns == {<<>>, <<4>>, <<36, 4>>, <<4, 4, 36>>}

text_extents ==
    \E font \in DOMAIN fonts, code \in GlyphRuns :
        /\ Running
        /\ font \notin closed
        /\ last' = [op |-> "text_extents", font |-> font, code |-> code,
                    outcome |-> "ok", calls |-> <<>>,
                    metrics |-> text_extents_call(font, code, Len(code))]
        /\ UNCHANGED <<fonts, made, wr_keys, nkeys, output_font, closed, reclaimed>>

(***************************************************************************)
(* The host.                                                               *)
(***************************************************************************)
\* The host makes an opened font the frame's font (output.font).
set_frame_font ==
    \E font \in DOMAIN fonts :
        /\ Running
        /\ font \notin closed
        /\ output_font # font
        /\ output_font' = font
        /\ last' = [op |-> "set_frame_font", font |-> font, outcome |-> "ok",
                    calls |-> <<>>]
        /\ UNCHANGED <<fonts, made, wr_keys, nkeys, closed, reclaimed>>

\* The host reclaims a font object no longer referenced.  The object is
\* plain memory to it: WRFont has no destructor, its font_backend is a
\* ManuallyDrop, and nothing in the driver gives the key back.
reclaim ==
    \E font \in DOMAIN fonts :
        /\ Running
        /\ font # output_font
        /\ fonts' = [o \in DOMAIN fonts \ {font} |-> fonts[o]]
        /\ reclaimed' = reclaimed \cup {[font |-> font,
                                          font_key |-> fonts[font].font_key]}
        /\ last' = [op |-> "reclaim", font |-> font, outcome |-> "ok",
                    calls |-> <<>>]
        /\ UNCHANGED <<made, wr_keys, nkeys, output_font, closed>>

Init ==
    /\ fonts = <<>>
    /\ made = 0
    /\ wr_keys = {}
    /\ nkeys = 0
    /\ output_font = NullFont
    /\ closed = {}
    /\ reclaimed = {}
    /\ last = [op |-> "init", outcome |-> "ok", calls |-> <<>>]

\* Every call the host can make.
Next ==
    \/ match_
    \/ list
    \/ open
    \/ close
    \/ encode_char
    \/ text_extents
    \/ set_frame_font
    \/ reclaim

Spec == Init /\ [][Next]_vars

(***************************************************************************)
(* The host calls one entry point at a time and a call of match_ or list   *)
(* leaves every font object as it is, so the properties are checked on     *)
(* the parts of Next they are about: each specification below allows a     *)
(* subset of the calls, and each of its behaviours is one of Spec.         *)
(***************************************************************************)
\* The life of font objects: opened, made the frame's font, closed,
\* reclaimed.
NextLife == open \/ set_frame_font \/ close \/ reclaim

SpecLife == Init /\ [][NextLife]_vars

\* The queries on opened fonts.
NextGlyphs == open \/ encode_char \/ text_extents

SpecGlyphs == Init /\ [][NextGlyphs]_vars

\* Matching and listing, which touch no font object.
NextMatch == match_ \/ list

SpecMatch == Init /\ [][NextMatch]_vars

(***************************************************************************)
(* Properties.                                                             *)
(***************************************************************************)
Count(calls, fn) == Cardinality({i \in DOMAIN calls : calls[i].fn = fn})

OpenedOk == last.op = "open" /\ last.outcome = "ok"

\* The scale of a font object, from its pixel size and its resource.
ScaleOf(f) == Scale(f.pixel_size, FontFile(f.font_backend).units_per_em)

\* The pixel size of the frame's font, or 15 when the frame has none.
FrameOrDefault ==
    IF output_font # NullFont THEN fonts[output_font].pixel_size ELSE 15

\* C1: the key allocated by an open is released by close or by the
\* reclamation of its font object: once an object has been closed and
\* reclaimed the backend no longer holds its key; and no two font objects
\* hold the same key.
C1_KeyReleased ==
    /\ \A r \in reclaimed : r.font \in closed => r.font_key \notin wr_keys
    /\ \A o1, o2 \in DOMAIN fonts :
           fonts[o1].font_key = fonts[o2].font_key => o1 = o2

\* C2: an open on an entity whose extra has no postscript-name entry
\* reports "postscript-name can not be found!" and returns no font object:
\* no object is added, no key is registered, whatever the requested size
\* and the frame's font.
C2_MissingPostscriptName ==
    (last.op = "open" /\ Fassoc(PostscriptKey, last.entity.extra) = Qnil)
        => /\ last.outcome = "error"
           /\ last.message = "postscript-name can not be found!"
           /\ last.result = NullFont
           /\ made \notin DOMAIN fonts
           /\ Count(last.calls, "add_font") = 0

C2_Witness ==
    /\ last.op = "open"
    /\ last.entity.extra # <<>>
    /\ Fassoc(PostscriptKey, last.entity.extra) = Qnil
    /\ last.pixel_size = 20
    /\ output_font # NullFont
    /\ last.outcome = "error"

\* C3 as stated: the size is the entity's size attribute if it has one,
\* else the requested size, a requested size of zero being replaced by
\* the frame font's pixel size or 15.
C3_AsClaimed ==
    OpenedOk =>
        fonts[last.result].pixel_size =
            IF last.entity.size # Qnil THEN last.entity.size.n
            ELSE IF last.pixel_size = 0 THEN FrameOrDefault
            ELSE last.pixel_size

\* C3, amended: the size is the entity's size attribute if it has one,
\* else the requested size; if that size is zero (a zero size attribute
\* included) it is replaced by the frame font's pixel size, or by 15 when
\* the frame has no font.  The object made, and the font object returned,
\* carry that size.
C3_EffectiveSize ==
    (last.op = "open" /\ last.outcome # "panic") =>
        LET size == IF last.entity.size # Qnil THEN last.entity.size.n
                    ELSE last.pixel_size
            eff  == IF size = 0 THEN FrameOrDefault ELSE size
        IN  /\ last.calls[1] = [fn |-> "font_make_object", arg |-> eff]
            /\ last.outcome = "ok" => fonts[last.result].pixel_size = eff
            /\ (last.entity.size = Qnil /\ last.pixel_size = 0
                  /\ last.outcome = "ok" /\ output_font = NullFont)
                   => fonts[last.result].pixel_size = 15

C3_Witness ==
    /\ OpenedOk
    /\ last.entity.size = Fixnum(0)
    /\ last.pixel_size = 20
    /\ output_font # NullFont
    /\ fonts[output_font].pixel_size = 60000
    /\ fonts[last.result].pixel_size = 60000

\* C4: every font object has height = ascent + descent +
\* round(scale * line_gap), space_width = average_width and
\* baseline_offset = 0, scale being pixel_size / units_per_em.
C4_HeightInvariant ==
    \A o \in DOMAIN fonts :
        LET f == fonts[o]
            gap == F32RoundI32(F32Mul(ScaleOf(f),
                                      F32FromInt(FontFile(f.font_backend).line_gap)))
        IN  /\ f.height = f.ascent + f.descent + gap
            /\ f.space_width = f.average_width
            /\ f.baseline_offset = 0

C4_Witness ==
    /\ OpenedOk
    /\ fonts[last.result].font_backend = "hn"
    /\ fonts[last.result].pixel_size = 20
    /\ fonts[last.result].height = 22

\* C5: every pixel metric of a font object is the scaled design metric
\* rounded to the nearest integer: average_width = round(advance.x * scale),
\* ascent = round(scale * ascent), descent = round(-scale * descent).
C5_RoundedMetrics ==
    \A o \in DOMAIN fonts :
        LET f == fonts[o]
            m == FontFile(f.font_backend)
        IN  /\ f.average_width =
                   F32RoundI32(F32Mul(F32FromInt(m.advance.val), ScaleOf(f)))
            /\ f.ascent = F32RoundI32(F32Mul(ScaleOf(f), F32FromInt(m.ascent)))
            /\ f.descent =
                   F32RoundI32(F32Mul(F32Neg(ScaleOf(f)), F32FromInt(m.descent)))

InI16(x) == -32768 <= x /\ x <= 32767

\* C6 as stated: the extents of any run are the font's average_width,
\* ascent and descent, with both bearings 10.
C6_AsClaimed ==
    last.op = "text_extents" =>
        /\ last.metrics.width = fonts[last.font].average_width
        /\ last.metrics.ascent = fonts[last.font].ascent
        /\ last.metrics.descent = fonts[last.font].descent
        /\ last.metrics.lbearing = 10
        /\ last.metrics.rbearing = 10

\* Whether the 16-bit field `got` is the i32 `x` narrowed to 16 bits.
Narrowed(got, x) == InI16(got) /\ (got - x) % 65536 = 0

\* C6, amended: the extents of any run are the font's average_width,
\* ascent and descent narrowed to 16 bits (equal to them whenever they lie
\* in -32768..32767), with both bearings 10, whatever the run holds.
C6_UniformExtents ==
    last.op = "text_extents" =>
        /\ Narrowed(last.metrics.width, fonts[last.font].average_width)
        /\ Narrowed(last.metrics.ascent, fonts[last.font].ascent)
        /\ Narrowed(last.metrics.descent, fonts[last.font].descent)
        /\ last.metrics.lbearing = 10
        /\ last.metrics.rbearing = 10

C6_Witness ==
    /\ last.op = "text_extents"
    /\ Len(last.code) = 3
    /\ fonts[last.font].average_width = 5
    /\ last.metrics.width = 5

\* C7: encode_char returns FONT_INVALID_CODE for a code that is no scalar
\* value (negative, a surrogate, above 0x10FFFF) and for a character the
\* font has no glyph for; otherwise the glyph the font maps it to.
C7_EncodeChar ==
    last.op = "encode_char" =>
        LET c    == last.c
            cmap == FontFile(fonts[last.font].font_backend).cmap
            scalar == (0 <= c /\ c <= 55295) \/ (57344 <= c /\ c <= 1114111)
        IN  IF scalar /\ c \in DOMAIN cmap
            THEN last.result = <<0, cmap[c]>>
            ELSE last.result = <<65535, 65535>>

C7_Witness ==
    /\ last.op = "encode_char"
    /\ last.c = 66
    /\ last.result = FONT_INVALID_CODE

\* The family a call of match_ or list was given, and what it asked the
\* system source for.
Matched == last.op \in {"match", "list"}

Searched == Matched /\ last.spec.family # Qnil

\* C8 as stated: the families Serif, SansSerif, Monospace, Cursive and
\* Fantasy are searched as their generic class, every other family as a
\* literal title.
C8_AsClaimed ==
    Searched =>
        LET t == last.spec.family.text
            a == last.calls[1].arg
        IN  /\ last.calls[1].fn = "select_best_match"
            /\ IF t = <<"S", "e", "r", "i", "f">> THEN a = Generic("Serif")
               ELSE IF t = <<"S", "a", "n", "s", "S", "e", "r", "i", "f">>
                   THEN a = Generic("SansSerif")
               ELSE IF t = <<"M", "o", "n", "o", "s", "p", "a", "c", "e">>
                   THEN a = Generic("Monospace")
               ELSE IF t = <<"C", "u", "r", "s", "i", "v", "e">>
                   THEN a = Generic("Cursive")
               ELSE IF t = <<"F", "a", "n", "t", "a", "s", "y">>
                   THEN a = Generic("Fantasy")
               ELSE a.tag = "Title"

NotBackslash(c) == c # "\\"

\* C8, amended: the families "Serif", "Sans Serif" (with the space),
\* "Monospace", "Cursive" and "Fantasy" are searched as their generic
\* class and never as a title; every other family, "SansSerif" among
\* them, is searched as a literal title, its hyphens escaped.
C8_GenericFamilies ==
    Searched =>
        LET t == last.spec.family.text
            a == last.calls[1].arg
        IN  /\ last.calls[1].fn = "select_best_match"
            /\ Count(last.calls, "select_best_match") = 1
            /\ IF t = <<"S", "e", "r", "i", "f">> THEN a = Generic("Serif")
               ELSE IF t = <<"S", "a", "n", "s", " ", "S", "e", "r", "i", "f">>
                   THEN a = Generic("SansSerif")
               ELSE IF t = <<"M", "o", "n", "o", "s", "p", "a", "c", "e">>
                   THEN a = Generic("Monospace")
               ELSE IF t = <<"C", "u", "r", "s", "i", "v", "e">>
                   THEN a = Generic("Cursive")
               ELSE IF t = <<"F", "a", "n", "t", "a", "s", "y">>
                   THEN a = Generic("Fantasy")
               ELSE /\ a.tag = "Title"
                    /\ SelectSeq(a.title, NotBackslash) = t
                    /\ \A i \in DOMAIN a.title :
                           a.title[i] = "-" => i > 1 /\ a.title[i - 1] = "\\"

C8_Witness ==
    /\ last.op = "match"
    /\ last.spec.family = Sym(<<"S", "a", "n", "s", " ", "S", "e", "r", "i", "f">>)
    /\ last.calls[1].arg = Generic("SansSerif")
    /\ last.result # <<>>

\* C9: match_ and list on a specification without a family return the
\* empty list, an ordinary result, and make no entity (nor search at all).
C9_NoFamilyNoCandidate ==
    (Matched /\ last.spec.family = Qnil)
        => /\ last.outcome = "ok"
           /\ last.result = <<>>
           /\ Count(last.calls, "font_make_entity") = 0
           /\ Count(last.calls, "select_best_match") = 0

C9_Witness ==
    /\ last.op = "list"
    /\ last.spec.family = Qnil
    /\ last.spec.size = Fixnum(12)
    /\ last.result = <<>>

\* C10: within one call every external call is made once: an open that
\* returns a font object has looked the name up once, loaded the resource
\* once and registered one key; a match_ or list has searched at most once
\* and loaded at most once.
C10_CalledOnce ==
    /\ OpenedOk => /\ Count(last.calls, "select_by_postscript_name") = 1
                   /\ Count(last.calls, "load") = 1
                   /\ Count(last.calls, "add_font") = 1
    /\ Matched => /\ Count(last.calls, "select_best_match") <= 1
                  /\ Count(last.calls, "load") <= 1

====
